---- MODULE Spec2Model ----
(***************************************************************************)
(* fx_ingest: the storage engine (db.py), the rate client with its file    *)
(* cache and the normalizer (api.py), and the two ingest commands          *)
(* run_backfill / run_daily (cli.py).                                      *)
(*                                                                         *)
(* Two specifications share the state and the storage operators:           *)
(*   SpecStore  one caller drives the storage API directly, as             *)
(*              tests/test_smoke.py does (upsert_rates with any batch);    *)
(*   Spec       several command-line invocations run concurrently against  *)
(*              one database file and one cache directory.                 *)
(***************************************************************************)
EXTENDS Integers, Sequences, FiniteSets, TLC

VARIABLES
    now,          \* wall clock, in whole seconds (CURRENT_TIMESTAMP, datetime.now)
    fx_rates,     \* committed rows of table fx_rates, as every reader sees them
    ingest_runs,  \* committed rows of table ingest_runs, in id order
    cache,        \* cache directory: fingerprint -> file content
    written,      \* history: fingerprints whose cache file was once written in full
    txn,          \* the open write transaction of the database file, if any
    inv,          \* per command-line invocation: its position and locals
    last          \* SpecStore: the storage call the caller made last

vars == <<now, fx_rates, ingest_runs, cache, written, txn, inv, last>>

(***************************************************************************)
(* Bounds                                                                  *)
(***************************************************************************)
MaxTime  == 1     \* the clock runs 0..MaxTime
MaxBatch == 2     \* longest row sequence the direct caller passes to upsert_rates
NInv     == 2     \* command-line invocations running against the same files
\* The direct caller of the run API starts at most MaxRuns runs.
MaxRuns == 2

(***************************************************************************)
(* Table fx_rates (db.py SCHEMA_SQL) and upsert_rates                      *)
(***************************************************************************)
\* SQL NULL, which sqlite3 binds for None and for a float NaN; the column rate
\* is REAL NOT NULL. NaN is the float that json.loads reads from the literal NaN.
NULL == -1
NaN  == -2

\* PRIMARY KEY (date, base, symbol)
Key(r) == <<r.date, r.base, r.symbol>>

\* A RateRow as handed to upsert_rates: the six named parameters of UPSERT_SQL.
RateRow(d, b, s, rate, src, fetched) ==
    [date |-> d, base |-> b, symbol |-> s, rate |-> rate, source |-> src,
     fetched_at |-> fetched]

\* The NOT NULL constraints of fx_rates on the bound columns: the statement
\* fails with IntegrityError when one of them holds.
ViolatesNotNull(r) == r.rate = NULL \/ r.rate = NaN

\* A plain INSERT with no ON CONFLICT clause into a table with no primary key.
InsertOnly(table, r, ts) ==
    table \cup {[date |-> r.date, base |-> r.base, symbol |-> r.symbol,
                 rate |-> r.rate, source |-> r.source,
                 fetched_at |-> r.fetched_at,
                 created_at |-> ts, updated_at |-> ts]}

\* INSERT OR REPLACE: the conflicting row is deleted and a new one inserted,
\* created_at included.
ReplaceRow(table, r, ts) ==
    {s \in table : Key(s) # Key(r)}
        \cup {[date |-> r.date, base |-> r.base, symbol |-> r.symbol,
                rate |-> r.rate, source |-> r.source,
                fetched_at |-> r.fetched_at,
                created_at |-> ts, updated_at |-> ts]}

\* One execution of UPSERT_SQL at CURRENT_TIMESTAMP = ts on a row the
\* constraints accept: INSERT, or on a primary-key conflict UPDATE of rate,
\* source, fetched_at and updated_at (created_at is not in the SET list).
UpsertRow(table, r, ts) ==
    IF \E s \in table : Key(s) = Key(r)
    THEN {IF Key(s) = Key(r)
          THEN [s EXCEPT !.rate = r.rate, !.source = r.source,
                         !.fetched_at = r.fetched_at, !.updated_at = ts]
          ELSE s : s \in table}
    ELSE table \cup {[date |-> r.date, base |-> r.base, symbol |-> r.symbol,
                      rate |-> r.rate, source |-> r.source,
                      fetched_at |-> r.fetched_at,
                      created_at |-> ts, updated_at |-> ts]}

\* conn.executemany(UPSERT_SQL, rows) inside one transaction, all statements
\* at the same second ts: the table after the last statement, or the failure
\* of the first rejected row (the with-block then rolls the transaction back).
RECURSIVE ExecuteMany(_, _, _)
ExecuteMany(table, rows, ts) ==
    IF rows = <<>> THEN [raised |-> FALSE, table |-> table]
    ELSE IF ViolatesNotNull(Head(rows)) THEN [raised |-> TRUE, table |-> table]
    ELSE ExecuteMany(UpsertRow(table, Head(rows), ts), Tail(rows), ts)

\* upsert_rates returning 0 for every batch.
UpsertRatesReturnsZero(table, rows, ts) ==
    IF rows = <<>>
    THEN [raised |-> FALSE, ret |-> 0, table |-> table]
    ELSE LET r == ExecuteMany(table, rows, ts)
         IN  IF r.raised
             THEN [raised |-> TRUE, ret |-> NULL, table |-> table]
             ELSE [raised |-> FALSE, ret |-> 0, table |-> r.table]

\* A full refresh: the table is emptied and the batch inserted.
RefreshRates(table, rows, ts) ==
    LET r == ExecuteMany({}, rows, ts)
    IN  IF r.raised
        THEN [raised |-> TRUE, ret |-> NULL, table |-> table]
        ELSE [raised |-> FALSE, ret |-> Len(rows), table |-> r.table]

\* upsert_rates(db_path, rows) run with no other writer: the committed table
\* afterwards and the value returned. A rejected row raises out of the
\* with-block, which rolls back: the committed table is the one before.
UpsertRates(table, rows, ts) ==
    IF rows = <<>>
    THEN [raised |-> FALSE, ret |-> 0, table |-> table]
    ELSE LET r == ExecuteMany(table, rows, ts)
         IN  IF r.raised
             THEN [raised |-> TRUE, ret |-> NULL, table |-> table]
             ELSE [raised |-> FALSE, ret |-> Len(rows), table |-> r.table]

(***************************************************************************)
(* JSON values, json.dumps and json.loads                                  *)
(***************************************************************************)
\* A parsed JSON value: t is its type; an object's items are its <<key,
\* value>> pairs in dict (insertion) order.
JNull      == [t |-> "null", n |-> 0, s |-> "", items |-> <<>>]
JNum(n)    == [t |-> "num",  n |-> n, s |-> "", items |-> <<>>]
JStr(s)    == [t |-> "str",  n |-> 0, s |-> s,  items |-> <<>>]
JArr(vs)   == [t |-> "arr",  n |-> 0, s |-> "", items |-> vs]
JObj(kvs)  == [t |-> "obj",  n |-> 0, s |-> "", items |-> kvs]

\* key in d
Has(d, key) == \E j \in 1 .. Len(d.items) : d.items[j][1] = key

\* d[key]
Get(d, key) ==
    d.items[CHOOSE j \in 1 .. Len(d.items) : d.items[j][1] = key][2]

\* d[key] = v on a dict: a known key keeps its place, a new one goes last.
PutKey(kvs, key, v) ==
    IF \E j \in 1 .. Len(kvs) : kvs[j][1] = key
    THEN [j \in 1 .. Len(kvs) |-> IF kvs[j][1] = key THEN <<key, v>> ELSE kvs[j]]
    ELSE Append(kvs, <<key, v>>)

\* The text of a JSON document, as its sequence of tokens.
Tok(k, s, n) == [k |-> k, s |-> s, n |-> n]

RECURSIVE Dumps(_), DumpItems(_), DumpElems(_)
\* json.dumps(v, ensure_ascii=True)
Dumps(v) ==
    CASE v.t = "null" -> <<Tok("null", "", 0)>>
      [] v.t = "num"  -> <<Tok("num", "", v.n)>>
      [] v.t = "str"  -> <<Tok("str", v.s, 0)>>
      [] v.t = "arr"  -> <<Tok("[", "", 0)>> \o DumpElems(v.items) \o <<Tok("]", "", 0)>>
      [] v.t = "obj"  -> <<Tok("{", "", 0)>> \o DumpItems(v.items) \o <<Tok("}", "", 0)>>
DumpItems(kvs) ==
    IF kvs = <<>> THEN <<>>
    ELSE <<Tok("key", kvs[1][1], 0)>> \o Dumps(kvs[1][2]) \o DumpItems(Tail(kvs))
DumpElems(vs) ==
    IF vs = <<>> THEN <<>> ELSE Dumps(vs[1]) \o DumpElems(Tail(vs))

ParseFail == [ok |-> FALSE, v |-> JNull, rest |-> <<>>]

RECURSIVE ParseValue(_), ParseItems(_, _), ParseElems(_, _)
ParseValue(toks) ==
    IF toks = <<>> THEN ParseFail
    ELSE LET h == Head(toks)
         IN  CASE h.k = "null" -> [ok |-> TRUE, v |-> JNull, rest |-> Tail(toks)]
               [] h.k = "num"  -> [ok |-> TRUE, v |-> JNum(h.n), rest |-> Tail(toks)]
               [] h.k = "str"  -> [ok |-> TRUE, v |-> JStr(h.s), rest |-> Tail(toks)]
               [] h.k = "["    -> ParseElems(Tail(toks), <<>>)
               [] h.k = "{"    -> ParseItems(Tail(toks), <<>>)
               [] OTHER        -> ParseFail
ParseItems(toks, acc) ==
    IF toks = <<>> THEN ParseFail
    ELSE IF Head(toks).k = "}"
         THEN [ok |-> TRUE, v |-> JObj(acc), rest |-> Tail(toks)]
    ELSE IF Head(toks).k = "key"
         THEN LET r == ParseValue(Tail(toks))
              IN  IF r.ok THEN ParseItems(r.rest, PutKey(acc, Head(toks).s, r.v))
                  ELSE ParseFail
    ELSE ParseFail
ParseElems(toks, acc) ==
    IF toks = <<>> THEN ParseFail
    ELSE IF Head(toks).k = "]"
         THEN [ok |-> TRUE, v |-> JArr(acc), rest |-> Tail(toks)]
    ELSE LET r == ParseValue(toks)
         IN  IF r.ok THEN ParseElems(r.rest, Append(acc, r.v)) ELSE ParseFail

\* json.loads(text): the value, or JSONDecodeError (ok = FALSE) on text that is
\* not one complete JSON document, the empty text included.
Loads(toks) ==
    LET r == ParseValue(toks)
    IN  IF r.ok /\ r.rest = <<>> THEN [ok |-> TRUE, v |-> r.v]
        ELSE [ok |-> FALSE, v |-> JNull]

(***************************************************************************)
(* api.py: payload validator                                               *)
(***************************************************************************)
\* A validator that accepts a rates field of any type.
ValidateAnyRates(payload) ==
    IF payload.t # "obj"
    THEN "Resposta da API invalida: payload nao e objeto."
    ELSE IF ~Has(payload, "rates")
    THEN "Resposta da API invalida: campo rates ausente."
    ELSE ""

\* _validate_payload(payload): the message of the ValueError it raises, or ""
\* when it returns.
ValidatePayload(payload) ==
    IF payload.t # "obj"
    THEN "Resposta da API invalida: payload nao e objeto."
    ELSE IF ~Has(payload, "rates")
    THEN "Resposta da API invalida: campo rates ausente."
    ELSE IF Get(payload, "rates").t # "obj"
    THEN "Resposta da API invalida: rates deve ser objeto."
    ELSE ""

(***************************************************************************)
(* api.py: normalize_payload                                               *)
(***************************************************************************)
\* str.upper() and str.strip() on the strings the model uses.
Upper(s) ==
    CASE s = "usd" -> "USD"
      [] s = "brl" -> "BRL"
      [] s = "eur" -> "EUR"
      [] OTHER     -> s
Strip(s) ==
    CASE s = " "    -> ""
      [] s = " brl" -> "brl"
      [] OTHER      -> s

\* bool(v) of a parsed JSON value
Truthy(v) ==
    CASE v.t = "null" -> FALSE
      [] v.t = "num"  -> v.n # 0
      [] v.t = "str"  -> v.s # ""
      [] OTHER        -> v.items # <<>>

\* str(v) of a string or of None
Str(v) == IF v.t = "str" THEN v.s ELSE IF v.t = "null" THEN "None" ELSE "?"

\* isinstance(v, (int, float))
IsNumber(v) == v.t = "num"

\* The snapshot loop building its list from the last entry to the first.
RECURSIVE SymbolRowsLastFirst(_, _, _, _, _)
SymbolRowsLastFirst(kvs, d, b, src, ts) ==
    IF kvs = <<>> THEN [exc |-> "", rows |-> <<>>]
    ELSE IF kvs[1][2].t # "num"
         THEN [exc |-> "float() argument must be a string or a real number",
               rows |-> <<>>]
    ELSE LET rest == SymbolRowsLastFirst(Tail(kvs), d, b, src, ts)
         IN  IF rest.exc # "" THEN rest
             ELSE [exc |-> "",
                   rows |-> rest.rows \o
                            <<[date |-> d, base |-> b, symbol |-> Upper(kvs[1][1]),
                               rate |-> kvs[1][2].n, source |-> src,
                               fetched_at |-> ts]>>]

\* The rows of one symbol -> rate mapping, all with date d; float(rate) raises
\* on a string that is no number (ValueError) and on null, lists and dicts
\* (TypeError).
RECURSIVE SymbolRows(_, _, _, _, _)
SymbolRows(kvs, d, b, src, ts) ==
    IF kvs = <<>> THEN [exc |-> "", rows |-> <<>>]
    ELSE IF kvs[1][2].t = "str"
         THEN [exc |-> "could not convert string to float", rows |-> <<>>]
    ELSE IF kvs[1][2].t # "num"
         THEN [exc |-> "float() argument must be a string or a real number",
               rows |-> <<>>]
    ELSE LET rest == SymbolRows(Tail(kvs), d, b, src, ts)
         IN  IF rest.exc # "" THEN rest
             ELSE [exc |-> "",
                   rows |-> <<RateRow(d, b, Upper(kvs[1][1]), kvs[1][2].n, src, ts)>>
                            \o rest.rows]

\* A series loop that skips a date whose value is no mapping.
RECURSIVE SeriesRowsSkipping(_, _, _, _)
SeriesRowsSkipping(kvs, b, src, ts) ==
    IF kvs = <<>> THEN [exc |-> "", rows |-> <<>>]
    ELSE IF kvs[1][2].t # "obj"
         THEN SeriesRowsSkipping(Tail(kvs), b, src, ts)
    ELSE LET rest == SeriesRowsSkipping(Tail(kvs), b, src, ts)
         IN  [exc |-> "",
              rows |-> [j \in 1 .. Len(kvs[1][2].items) |->
                          [date |-> kvs[1][1], base |-> b,
                           symbol |-> Upper(kvs[1][2].items[j][1]),
                           rate |-> kvs[1][2].items[j][2].n, source |-> src,
                           fetched_at |-> ts]] \o rest.rows]

\* The series loop: dates in encounter order, symbols within each date.
RECURSIVE SeriesRows(_, _, _, _)
SeriesRows(kvs, b, src, ts) ==
    IF kvs = <<>> THEN [exc |-> "", rows |-> <<>>]
    ELSE IF kvs[1][2].t # "obj"
         THEN [exc |-> "Formato de rates invalido para serie temporal.", rows |-> <<>>]
    ELSE LET here == SymbolRows(kvs[1][2].items, kvs[1][1], b, src, ts)
             rest == SeriesRows(Tail(kvs), b, src, ts)
         IN  IF here.exc # "" THEN here
             ELSE IF rest.exc # "" THEN rest
             ELSE [exc |-> "", rows |-> here.rows \o rest.rows]

\* normalize_payload(payload, base, source, fetched_at=ts): the rows, or the
\* message of the exception raised (then no rows). base = "" stands for a
\* base that is None or empty.
NormalizePayload(payload, base, src, ts) ==
    IF ValidatePayload(payload) # ""
    THEN [exc |-> ValidatePayload(payload), rows |-> <<>>]
    ELSE
    LET pbase == IF Has(payload, "base") THEN Get(payload, "base") ELSE JNull
        bsel  == IF base # "" THEN JStr(base)
                 ELSE IF Truthy(pbase) THEN pbase ELSE JStr("")
        rates == Get(payload, "rates").items
        pdate == IF Has(payload, "date") THEN Get(payload, "date") ELSE JStr("")
    IN  IF bsel.t # "str"
        THEN [exc |-> "object has no attribute 'upper'", rows |-> <<>>]
        ELSE IF Upper(bsel.s) = ""
        THEN [exc |-> "Payload sem base valida.", rows |-> <<>>]
        ELSE IF rates # <<>> /\ \A j \in 1 .. Len(rates) : IsNumber(rates[j][2])
        THEN IF Str(pdate) = ""
             THEN [exc |-> "Payload latest sem campo date.", rows |-> <<>>]
             ELSE SymbolRows(rates, Str(pdate), Upper(bsel.s), src, ts)
        ELSE SeriesRows(rates, Upper(bsel.s), src, ts)

(***************************************************************************)
(* api.py: FrankfurterClient                                               *)
(***************************************************************************)
Proc == 1 .. NInv

\* The locals of one process: a command-line invocation (Spec) or a direct
\* caller of the client (SpecClient).
Idle ==
    [pc |-> "idle", command |-> "", method |-> "", base |-> "", symbols |-> <<>>,
     use_cache |-> TRUE, endpoint |-> "", params |-> <<>>, run_id |-> 0,
     payload |-> JNull, rows |-> <<>>, inserted |-> 0, exc |-> "",
     ret |-> NULL,
     net |-> FALSE,   \* history: this fetch has sent a GET
     known |-> {}]    \* history: the files written in full when this fetch began

\* _clean_symbols without its check that a symbol is left.
RECURSIVE CleanSymbols(_)
CleanSymbols(symbols) ==
    IF symbols = <<>> THEN <<>>
    ELSE IF Strip(symbols[1]) = "" THEN CleanSymbols(Tail(symbols))
    ELSE <<Upper(Strip(symbols[1]))>> \o CleanSymbols(Tail(symbols))

\* ",".join(xs)
RECURSIVE Join(_)
Join(xs) ==
    IF xs = <<>> THEN ""
    ELSE IF Len(xs) = 1 THEN xs[1]
    ELSE xs[1] \o "," \o Join(Tail(xs))

\* json.dumps without sort_keys: the mapping in insertion order.
InsertionOrder(params) == params

\* The order of the parameter names under sort_keys=True.
NameRank(name) == IF name = "base" THEN 1 ELSE 2

RECURSIVE SortKeys(_)
InsertSorted(p, sorted) ==
    LET before == SelectSeq(sorted, LAMBDA q : NameRank(q[1]) <= NameRank(p[1]))
        after  == SelectSeq(sorted, LAMBDA q : NameRank(q[1]) > NameRank(p[1]))
    IN  before \o <<p>> \o after
SortKeys(params) ==
    IF params = <<>> THEN <<>>
    ELSE InsertSorted(params[Len(params)], SortKeys(SubSeq(params, 1, Len(params) - 1)))

\* _cache_key / _cache_file: sha256 of json.dumps({"endpoint": endpoint,
\* "params": params}, sort_keys=True), a hash taken to be free of collisions:
\* the fingerprint is the canonical text itself.
CacheKey(endpoint, params) == <<endpoint, SortKeys(params)>>

StartDate == "2026-02-09"
EndDate   == "2026-02-10"

EndpointOf(method) ==
    IF method = "fetch_latest" THEN "/v1/latest"
    ELSE "/v1/" \o StartDate \o ".." \o EndDate

\* What the upstream service may answer to a GET.
SnapshotPayload ==
    JObj(<< <<"amount", JNum(1)>>, <<"base", JStr("USD")>>,
            <<"date", JStr("2026-02-10")>>,
            <<"rates", JObj(<< <<"BRL", JNum(1)>>, <<"EUR", JNum(1)>> >>)>> >>)
SeriesPayload ==
    JObj(<< <<"base", JStr("USD")>>,
            <<"rates", JObj(<< <<"2026-02-09", JObj(<< <<"BRL", JNum(2)>> >>)>>,
                               <<"2026-02-10", JObj(<< <<"BRL", JNum(2)>> >>)>> >>)>> >>)
\* a second rate that SQLite stores as NULL
NaNPayload ==
    JObj(<< <<"base", JStr("USD")>>, <<"date", JStr("2026-02-10")>>,
            <<"rates", JObj(<< <<"BRL", JNum(2)>>, <<"EUR", JNum(NaN)>> >>)>> >>)
\* a snapshot without its date
NoDatePayload ==
    JObj(<< <<"base", JStr("USD")>>,
            <<"rates", JObj(<< <<"BRL", JNum(1)>> >>)>> >>)
\* a range without a quoted day
EmptyRatesPayload == JObj(<< <<"base", JStr("USD")>>, <<"rates", JObj(<<>>)>> >>)
NoRatesPayload  == JObj(<< <<"message", JStr("not found")>> >>)
BadRatesPayload == JObj(<< <<"base", JStr("USD")>>, <<"rates", JArr(<<>>)>> >>)
ListPayload     == JArr(<<>>)

Responses ==
    {SnapshotPayload, SeriesPayload, NaNPayload, NoDatePayload,
     EmptyRatesPayload, NoRatesPayload, BadRatesPayload, ListPayload}

\* requests.get raising, raise_for_status() raising, response.json() raising
HttpErrors == {"ConnectionError", "HTTPError", "JSONDecodeError"}

Raise(i, msg) ==
    inv' = [inv EXCEPT ![i].pc = "except", ![i].exc = msg]

\* fetch_latest / fetch_timeseries joining the cleaned symbols without the
\* check that one is left.
FetchCallUnchecked(i) ==
    /\ inv[i].pc = "call_fetch"
    /\ inv' = [inv EXCEPT
             ![i].pc = "get_json",
             ![i].known = written,
             ![i].endpoint = EndpointOf(inv[i].method),
             ![i].params = << <<"base", Upper(inv[i].base)>>,
                              <<"symbols", Join(CleanSymbols(inv[i].symbols))>> >>]
    /\ UNCHANGED <<now, fx_rates, ingest_runs, cache, written, txn, last>>

\* fetch_latest / fetch_timeseries up to the call of _get_json: the symbols
\* are cleaned (ValueError when none is left) and the parameters built.
FetchCall(i) ==
    /\ inv[i].pc = "call_fetch"
    /\ LET cleaned == CleanSymbols(inv[i].symbols)
       IN  IF cleaned = <<>>
           THEN Raise(i, "Informe ao menos um symbol.")
           ELSE inv' = [inv EXCEPT
                    ![i].pc = "get_json",
                    ![i].known = written,
                    ![i].endpoint = EndpointOf(inv[i].method),
                    ![i].params = << <<"base", Upper(inv[i].base)>>,
                                     <<"symbols", Join(cleaned)>> >>]
    /\ UNCHANGED <<now, fx_rates, ingest_runs, cache, written, txn, last>>

FileOf(i) == CacheKey(inv[i].endpoint, inv[i].params)

\* _get_json, lines 42-44: with caching on and the cache file present, the
\* file is read and parsed and the result returned, unvalidated; json.loads
\* raises on a file that holds no complete document.
GetJsonCheck(i) ==
    /\ inv[i].pc = "get_json"
    /\ IF inv[i].use_cache /\ FileOf(i) \in DOMAIN cache
       THEN LET r == Loads(cache[FileOf(i)])
            IN  IF r.ok
                THEN inv' = [inv EXCEPT ![i].pc = "fetched", ![i].payload = r.v]
                ELSE Raise(i, "JSONDecodeError")
       ELSE inv' = [inv EXCEPT ![i].pc = "http"]
    /\ UNCHANGED <<now, fx_rates, ingest_runs, cache, written, txn, last>>

\* _get_json writing the cache file whatever use_cache says.
HttpGetAlwaysCaches(i) ==
    /\ inv[i].pc = "http"
    /\ \/ \E e \in HttpErrors :
            inv' = [inv EXCEPT ![i].pc = "except", ![i].exc = e, ![i].net = TRUE]
       \/ \E p \in Responses :
            IF ValidatePayload(p) # ""
            THEN inv' = [inv EXCEPT ![i].pc = "except",
                                    ![i].exc = ValidatePayload(p),
                                    ![i].net = TRUE]
            ELSE inv' = [inv EXCEPT ![i].pc = "cache_open",
                                    ![i].payload = p, ![i].net = TRUE]
    /\ UNCHANGED <<now, fx_rates, ingest_runs, cache, written, txn, last>>

\* _get_json, lines 46-51 and 56: the GET, raise_for_status, response.json()
\* and _validate_payload; with caching off the payload is returned.
HttpGet(i) ==
    /\ inv[i].pc = "http"
    /\ \/ \E e \in HttpErrors :
            inv' = [inv EXCEPT ![i].pc = "except", ![i].exc = e, ![i].net = TRUE]
       \/ \E p \in Responses :
            IF ValidatePayload(p) # ""
            THEN inv' = [inv EXCEPT ![i].pc = "except",
                                    ![i].exc = ValidatePayload(p),
                                    ![i].net = TRUE]
            ELSE inv' = [inv EXCEPT
                     ![i].pc = IF inv[i].use_cache THEN "cache_open" ELSE "fetched",
                     ![i].payload = p, ![i].net = TRUE]
    /\ UNCHANGED <<now, fx_rates, ingest_runs, cache, written, txn, last>>

\* _get_json, line 54, first half: write_text opens the cache file for
\* writing, which creates it or cuts it to length 0.
CacheOpen(i) ==
    /\ inv[i].pc = "cache_open"
    /\ cache' = (FileOf(i) :> <<>>) @@ cache
    /\ inv' = [inv EXCEPT ![i].pc = "cache_write"]
    /\ UNCHANGED <<now, fx_rates, ingest_runs, written, txn, last>>

\* _get_json, line 54, second half, and line 56: the text of the payload is
\* written and the file closed; the payload is returned.
CacheWrite(i) ==
    /\ inv[i].pc = "cache_write"
    /\ cache' = (FileOf(i) :> Dumps(inv[i].payload)) @@ cache
    /\ written' = written \cup {FileOf(i)}
    /\ inv' = [inv EXCEPT ![i].pc = "fetched"]
    /\ UNCHANGED <<now, fx_rates, ingest_runs, txn, last>>

FetchStep(i) ==
    \/ FetchCall(i)
    \/ GetJsonCheck(i)
    \/ HttpGet(i)
    \/ CacheOpen(i)
    \/ CacheWrite(i)

(***************************************************************************)
(* db.py: ingest_runs, and upsert_rates statement by statement             *)
(***************************************************************************)
\* A column of type TEXT that holds SQL NULL (error_message of a run that is
\* running or OK).
NoText == "<NULL>"

\* str(exc) of the sqlite3 errors
NotNullMessage == "NOT NULL constraint failed: fx_rates.rate"
LockedMessage  == "database is locked"

NoTxn == [owner |-> 0, table |-> {}, done |-> 0]

\* SpecStore's caller has made no storage call yet.
NoCall == [op |-> "none", rows |-> <<>>, ret |-> NULL, raised |-> FALSE,
           again |-> FALSE, before |-> {}, at |-> 0]

\* A database without a write lock: no statement ever waits for another
\* connection.
NeverLocked(i) == FALSE

\* The database file is write-locked by a transaction of another connection:
\* a statement that writes waits for the lock, and raises OperationalError
\* ("database is locked") when the connection's timeout ends first.
LockedFor(i) == txn.owner # 0 /\ txn.owner # i

\* A run table whose key is the smallest id no row has at the moment, as
\* MAX(id)+1 of the RUNNING rows would give.
StartRunSmallestFree(runs, command, args, ts) ==
    Append(runs, [id |-> 1 + Cardinality({j \in 1 .. Len(runs) : runs[j].status = "RUNNING"}),
                  command |-> command, args |-> args,
                  status |-> "RUNNING", started_at |-> ts, finished_at |-> NULL,
                  rows_inserted |-> 0, error_message |-> NoText])

\* start_ingest_run: INSERT of a RUNNING row; lastrowid of the AUTOINCREMENT
\* key is one more than the largest id ever used (no row is ever deleted).
StartRun(runs, command, args, ts) ==
    Append(runs, [id |-> Len(runs) + 1, command |-> command, args |-> args,
                  status |-> "RUNNING", started_at |-> ts, finished_at |-> NULL,
                  rows_inserted |-> 0, error_message |-> NoText])

\* finish_ingest_run with the status forced to OK.
FinishRunAlwaysOK(runs, run_id, status, rows_inserted, error_message, ts) ==
    [j \in 1 .. Len(runs) |->
        IF runs[j].id = run_id
        THEN [runs[j] EXCEPT !.status = "OK", !.finished_at = ts,
                             !.rows_inserted = rows_inserted,
                             !.error_message = error_message]
        ELSE runs[j]]

\* An UPDATE with no WHERE clause: every run is written.
FinishEveryRun(runs, run_id, status, rows_inserted, error_message, ts) ==
    [j \in 1 .. Len(runs) |->
        [runs[j] EXCEPT !.status = status, !.finished_at = ts,
                        !.rows_inserted = rows_inserted,
                        !.error_message = error_message]]

\* finish_ingest_run: UPDATE ... WHERE id = run_id
FinishRun(runs, run_id, status, rows_inserted, error_message, ts) ==
    [j \in 1 .. Len(runs) |->
        IF runs[j].id = run_id
        THEN [runs[j] EXCEPT !.status = status, !.finished_at = ts,
                             !.rows_inserted = rows_inserted,
                             !.error_message = error_message]
        ELSE runs[j]]

(***************************************************************************)
(* cli.py: run_backfill and run_daily                                      *)
(***************************************************************************)
Commands == {"backfill", "daily"}

MethodOf(command) ==
    IF command = "backfill" THEN "fetch_timeseries" ELSE "fetch_latest"

\* The args snapshot stored with the run (json.dumps of the dict).
ArgsOf(command, base, symbols, use_cache) ==
    [start |-> IF command = "backfill" THEN StartDate ELSE "",
     end |-> IF command = "backfill" THEN EndDate ELSE "",
     base |-> base, symbols |-> symbols, use_cache |-> use_cache]

\* run_backfill / run_daily up to the try block: settings, init_db and
\* start_ingest_run. An OperationalError here is raised outside the try block
\* and leaves the function.
StartIngestRun(i) ==
    /\ inv[i].pc = "idle"
    /\ \E c \in Commands, no_cache \in BOOLEAN :
         IF LockedFor(i)
         THEN /\ inv' = [inv EXCEPT ![i].pc = "uncaught", ![i].command = c,
                                    ![i].exc = LockedMessage]
              /\ UNCHANGED ingest_runs
         ELSE /\ ingest_runs' = StartRun(ingest_runs, c,
                                    ArgsOf(c, "USD", <<"BRL", "EUR">>, ~no_cache), now)
              /\ inv' = [inv EXCEPT ![i] = [Idle EXCEPT
                           !.pc = "call_fetch", !.command = c,
                           !.method = MethodOf(c), !.base = "USD",
                           !.symbols = <<"BRL", "EUR">>,
                           !.use_cache = ~no_cache,
                           !.run_id = Len(ingest_runs) + 1]]
    /\ UNCHANGED <<now, fx_rates, cache, written, txn, last>>

\* rows = normalize_payload(payload, base=args.base)
Normalize(i) ==
    /\ inv[i].pc = "fetched"
    /\ LET r == NormalizePayload(inv[i].payload, inv[i].base, "frankfurter", now)
       IN  IF r.exc # "" THEN Raise(i, r.exc)
           ELSE inv' = [inv EXCEPT ![i].pc = "upsert", ![i].rows = r.rows]
    /\ UNCHANGED <<now, fx_rates, ingest_runs, cache, written, txn, last>>

\* upsert_rates(db_path, []) returns 0 without opening the database.
UpsertNothing(i) ==
    /\ inv[i].pc = "upsert"
    /\ inv[i].rows = <<>>
    /\ inv' = [inv EXCEPT ![i].pc = "finish_ok", ![i].inserted = 0]
    /\ UNCHANGED <<now, fx_rates, ingest_runs, cache, written, txn, last>>

\* executemany in autocommit mode: every statement is committed on its own.
UpsertExecAutocommit(i) ==
    /\ inv[i].pc = "upsert"
    /\ inv[i].rows # <<>>
    /\ IF LockedFor(i)
       THEN /\ Raise(i, LockedMessage)
            /\ UNCHANGED <<txn, fx_rates>>
       ELSE LET k == txn.done + 1
            IN  /\ k <= Len(inv[i].rows)
                /\ IF ViolatesNotNull(inv[i].rows[k])
                   THEN /\ txn' = NoTxn
                        /\ Raise(i, NotNullMessage)
                        /\ UNCHANGED fx_rates
                   ELSE /\ fx_rates' = UpsertRow(fx_rates, inv[i].rows[k], now)
                        /\ txn' = [owner |-> i, table |-> fx_rates', done |-> k]
                        /\ UNCHANGED inv
    /\ UNCHANGED <<now, ingest_runs, cache, written, last>>

\* upsert_rates, line 57: the next statement of executemany. The first one
\* opens the transaction and takes the write lock; a rejected row raises out
\* of the with-block, whose exit rolls the transaction back.
UpsertExec(i) ==
    /\ inv[i].pc = "upsert"
    /\ inv[i].rows # <<>>
    /\ IF LockedFor(i)
       THEN /\ Raise(i, LockedMessage)
            /\ UNCHANGED txn
       ELSE LET working == IF txn.owner = i THEN txn.table ELSE fx_rates
                k == txn.done + 1
            IN  /\ k <= Len(inv[i].rows)
                /\ IF ViolatesNotNull(inv[i].rows[k])
                   THEN /\ txn' = NoTxn
                        /\ Raise(i, NotNullMessage)
                   ELSE /\ txn' = [owner |-> i,
                                   table |-> UpsertRow(working, inv[i].rows[k], now),
                                   done |-> k]
                        /\ UNCHANGED inv
    /\ UNCHANGED <<now, fx_rates, ingest_runs, cache, written, last>>

\* upsert_rates, lines 58-59: commit, and return len(rows).
UpsertCommit(i) ==
    /\ inv[i].pc = "upsert"
    /\ inv[i].rows # <<>>
    /\ txn.owner = i
    /\ txn.done = Len(inv[i].rows)
    /\ fx_rates' = txn.table
    /\ txn' = NoTxn
    /\ inv' = [inv EXCEPT ![i].pc = "finish_ok", ![i].inserted = Len(inv[i].rows)]
    /\ UNCHANGED <<now, ingest_runs, cache, written, last>>

\* finish_ingest_run(..., "OK", inserted) committing and then raising.
FinishOKThenRaise(i) ==
    /\ inv[i].pc = "finish_ok"
    /\ ~LockedFor(i)
    /\ ingest_runs' = FinishRun(ingest_runs, inv[i].run_id, "OK",
                                inv[i].inserted, NoText, now)
    /\ Raise(i, "logging failed")
    /\ UNCHANGED <<now, fx_rates, cache, written, txn, last>>

\* The try block's last lines: finish_ingest_run(..., "OK", inserted),
\* logging.info, return 0. OperationalError is raised inside the try block.
FinishOK(i) ==
    /\ inv[i].pc = "finish_ok"
    /\ IF LockedFor(i)
       THEN /\ Raise(i, LockedMessage)
            /\ UNCHANGED ingest_runs
       ELSE /\ ingest_runs' = FinishRun(ingest_runs, inv[i].run_id, "OK",
                                        inv[i].inserted, NoText, now)
            /\ inv' = [inv EXCEPT ![i].pc = "done", ![i].ret = 0]
    /\ UNCHANGED <<now, fx_rates, cache, written, txn, last>>

\* The except block: finish_ingest_run(..., "FAIL", 0, str(exc)),
\* logging.exception, return 1. OperationalError here leaves the function.
FinishFail(i) ==
    /\ inv[i].pc = "except"
    /\ IF LockedFor(i)
       THEN /\ inv' = [inv EXCEPT ![i].pc = "uncaught"]
            /\ UNCHANGED ingest_runs
       ELSE /\ ingest_runs' = FinishRun(ingest_runs, inv[i].run_id, "FAIL",
                                        0, inv[i].exc, now)
            /\ inv' = [inv EXCEPT ![i].pc = "done", ![i].ret = 1]
    /\ UNCHANGED <<now, fx_rates, cache, written, txn, last>>

\* The positions of an invocation between start_ingest_run and its return.
Running == {"call_fetch", "get_json", "http", "cache_open", "cache_write",
            "fetched", "upsert", "finish_ok", "except"}

\* The process is killed. SQLite rolls back the transaction it had open.
Crash(i) ==
    /\ inv[i].pc \in Running
    /\ inv' = [inv EXCEPT ![i].pc = "crashed"]
    /\ txn' = IF txn.owner = i THEN NoTxn ELSE txn
    /\ UNCHANGED <<now, fx_rates, ingest_runs, cache, written, last>>

\* A step of invocation i other than its being killed.
RunStep(i) ==
    \/ StartIngestRun(i)
    \/ FetchStep(i)
    \/ Normalize(i)
    \/ UpsertNothing(i)
    \/ UpsertExec(i)
    \/ UpsertCommit(i)
    \/ FinishOK(i)
    \/ FinishFail(i)

\* init_db has created both tables, empty; the cache directory is empty; no
\* process has started.
Init ==
    /\ now = 0
    /\ fx_rates = {}
    /\ ingest_runs = <<>>
    /\ cache = <<>>
    /\ written = {}
    /\ txn = NoTxn
    /\ inv = [i \in Proc |-> Idle]
    /\ last = NoCall

\* The clock advances by a second.
Tick ==
    /\ now < MaxTime
    /\ now' = now + 1
    /\ UNCHANGED <<fx_rates, ingest_runs, cache, written, txn, inv, last>>

Next ==
    \/ Tick
    \/ \E i \in Proc : RunStep(i)
    \/ \E i \in Proc : Crash(i)

Spec == Init /\ [][Next]_vars

(***************************************************************************)
(* SpecClient: callers drive FrankfurterClient directly                    *)
(***************************************************************************)
SymbolLists == { <<"BRL", "EUR">>, <<" ">> }
Methods     == {"fetch_latest", "fetch_timeseries"}

\* A caller builds a client with use_cache = uc and calls one fetch method.
ClientCall(i) ==
    /\ inv[i].pc = "idle"
    /\ \E m \in Methods, syms \in SymbolLists, uc \in BOOLEAN :
          inv' = [inv EXCEPT ![i] = [Idle EXCEPT
                    !.pc = "call_fetch", !.method = m, !.base = "usd",
                    !.symbols = syms, !.use_cache = uc]]
    /\ UNCHANGED <<now, fx_rates, ingest_runs, cache, written, txn, last>>

\* The fetch method has returned or raised; the caller drops the client.
ClientReturn(i) ==
    /\ inv[i].pc \in {"fetched", "except"}
    /\ inv' = [inv EXCEPT ![i] = Idle]
    /\ UNCHANGED <<now, fx_rates, ingest_runs, cache, written, txn, last>>

ClientNext ==
    \E i \in Proc :
        \/ ClientCall(i)
        \/ FetchStep(i)
        \/ ClientReturn(i)

SpecClient == Init /\ [][ClientNext]_vars

(***************************************************************************)
(* Claims on the ingest commands (Spec)                                    *)
(***************************************************************************)
\* The stored rows without the columns SQLite stamps itself.
Data(table) ==
    {[date |-> s.date, base |-> s.base, symbol |-> s.symbol, rate |-> s.rate,
      source |-> s.source, fetched_at |-> s.fetched_at] : s \in table}

\* The run record of invocation i (it has passed start_ingest_run).
RunOf(i) == ingest_runs[inv[i].run_id]

\* C3: the committed table, which is what every reader sees, changes only in
\* a step that commits one whole batch: the step ends an upsert_rates call
\* that returns, and the table after it is the table before it with every row
\* of the batch applied. Every other step, the statements of a half-executed
\* batch and the step in which upsert_rates raises among them, leaves the
\* committed table as it was.
C3_AtomicBatch ==
    [][/\ fx_rates' # fx_rates =>
            \E i \in Proc :
                /\ inv[i].pc = "upsert" /\ inv'[i].pc = "finish_ok"
                /\ ~ExecuteMany(fx_rates, inv[i].rows, now).raised
                /\ Data(fx_rates') =
                       Data(ExecuteMany(fx_rates, inv[i].rows, now).table)
       /\ \A i \in Proc :
            (inv[i].pc = "upsert" /\ inv'[i].pc = "except") =>
                fx_rates' = fx_rates]_vars

\* A batch was rejected at its second row, after its first row had been
\* executed, while the other invocation had committed its own batch.
C3_Witness ==
    \E i, j \in Proc :
        /\ i # j
        /\ inv[i].pc = "except" /\ inv[i].exc = NotNullMessage
        /\ Len(inv[i].rows) = 2 /\ ~ViolatesNotNull(inv[i].rows[1])
        /\ inv[j].pc = "done" /\ inv[j].ret = 0
        /\ Cardinality(fx_rates) = 2
        /\ \A s \in fx_rates : s.rate # inv[i].rows[1].rate

\* C4: a run row is created RUNNING; a step changes an existing row only from
\* RUNNING to OK or FAIL, setting finished_at and leaving id, command, args
\* and started_at alone; a row that is OK or FAIL never changes again; and the
\* row of an invocation that has returned is OK or FAIL.
C4_StatusOneWay ==
    /\ [](\A i \in Proc :
            inv[i].pc = "done" => RunOf(i).status \in {"OK", "FAIL"})
    /\ [][/\ Len(ingest_runs') >= Len(ingest_runs)
          /\ \A j \in 1 .. Len(ingest_runs') :
                IF j > Len(ingest_runs)
                THEN /\ ingest_runs'[j].status = "RUNNING"
                     /\ ingest_runs'[j].finished_at = NULL
                ELSE ingest_runs'[j] # ingest_runs[j] =>
                        /\ ingest_runs[j].status = "RUNNING"
                        /\ ingest_runs'[j].status \in {"OK", "FAIL"}
                        /\ ingest_runs'[j].finished_at = now
                        /\ ingest_runs'[j].id = ingest_runs[j].id
                        /\ ingest_runs'[j].command = ingest_runs[j].command
                        /\ ingest_runs'[j].args = ingest_runs[j].args
                        /\ ingest_runs'[j].started_at = ingest_runs[j].started_at]_vars

\* Both invocations have returned, one with its run OK and one with its run
\* FAIL after finish_ingest_run(OK) had raised.
C4_Witness ==
    \E i, j \in Proc :
        /\ inv[i].pc = "done" /\ RunOf(i).status = "OK"
        /\ inv[j].pc = "done" /\ RunOf(j).status = "FAIL"
        /\ RunOf(j).started_at < RunOf(j).finished_at

\* C5: when an invocation has returned with its run FAIL, the run's
\* rows_inserted is 0 and upsert_rates has committed no batch for it; when it
\* has returned with its run OK, rows_inserted is the number of rows it
\* upserted.
C5_NoPartialSuccess ==
    \A i \in Proc :
        inv[i].pc = "done" =>
            /\ RunOf(i).status = "FAIL" =>
                  /\ RunOf(i).rows_inserted = 0
                  /\ inv[i].inserted = 0
            /\ RunOf(i).status = "OK" =>
                  RunOf(i).rows_inserted = Len(inv[i].rows)

\* The invocations that have passed start_ingest_run.
Started == {i \in Proc : inv[i].run_id # 0}

\* The status of the run of invocation i, "none" before start_ingest_run.
StatusOf(i) ==
    IF inv[i].run_id \in 1 .. Len(ingest_runs) THEN RunOf(i).status ELSE "none"

\* C6: every invocation that has passed start_ingest_run owns exactly one run
\* row, no two share one and there is no other row; and once run_backfill /
\* run_daily has ended without the process being killed, by returning or by
\* an exception leaving it, that row is OK or FAIL. (Nothing but the
\* invocation's own finish_ingest_run writes its row, so a row that is RUNNING
\* when the function has ended stays RUNNING.)
C6_RunReachesTerminal ==
    /\ Len(ingest_runs) = Cardinality(Started)
    /\ \A i \in Started :
          /\ inv[i].run_id \in 1 .. Len(ingest_runs)
          /\ RunOf(i).id = inv[i].run_id
          /\ \A j \in Started : inv[j].run_id = inv[i].run_id => j = i
          /\ inv[i].pc \in {"done", "uncaught"} =>
                StatusOf(i) \in {"OK", "FAIL"}

LaterCachedCheck(i) ==
    /\ inv[i].pc = "get_json" /\ inv'[i].pc # "get_json"
    /\ inv[i].use_cache
    /\ FileOf(i) \in inv[i].known

\* C8: such a fetch returns the payload stored in the file and sends no GET.
C8_CacheHitExact ==
    [][\A i \in Proc :
          LaterCachedCheck(i) =>
              /\ inv'[i].pc = "fetched"
              /\ ~inv'[i].net
              /\ Dumps(inv'[i].payload) = cache[FileOf(i)]]_vars

\* C9: a step of _get_json with caching off leaves the cache directory as it
\* is; its first step goes on to the GET whether or not the file exists; and
\* when it returns, it has sent a GET and returns that GET's response.
C9_CacheBypass ==
    [][\A i \in Proc :
          (/\ ~inv[i].use_cache
           /\ inv[i].pc \in {"get_json", "http", "cache_open", "cache_write"}
           /\ inv'[i] # inv[i]) =>
              /\ cache' = cache
              /\ inv[i].pc = "get_json" => inv'[i].pc = "http"
              /\ inv'[i].pc = "fetched" =>
                    /\ inv[i].pc = "http"
                    /\ inv'[i].net
                    /\ inv'[i].payload \in Responses
              /\ inv'[i].pc \in {"http", "fetched", "except"}]_vars

\* A fetch with caching off has returned a payload other than the one in the
\* cache file of its query.
C9_Witness ==
    \E i \in Proc :
        /\ inv[i].pc = "fetched" /\ ~inv[i].use_cache /\ inv[i].net
        /\ FileOf(i) \in DOMAIN cache
        /\ cache[FileOf(i)] # <<>>
        /\ cache[FileOf(i)] # Dumps(inv[i].payload)

\* The Payload Validator's condition: an object with a field rates that is an
\* object.
WellFormed(p) ==
    /\ p.t = "obj"
    /\ \E j \in 1 .. Len(p.items) : p.items[j][1] = "rates" /\ p.items[j][2].t = "obj"

ValidationMessages ==
    {"Resposta da API invalida: payload nao e objeto.",
     "Resposta da API invalida: campo rates ausente.",
     "Resposta da API invalida: rates deve ser objeto."}

\* C10: a fetch whose response is not well-formed raises, returns no payload
\* and changes no cache file; every cache file that no fetch is in the middle
\* of writing holds the text of a well-formed payload; every payload a fetch
\* returns is well-formed; and normalize_payload gives no rows for a response
\* that is not well-formed.
C10_ValidationGates ==
    /\ [](/\ \A k \in DOMAIN cache :
                \/ cache[k] = <<>> /\ \E j \in Proc :
                                         inv[j].pc = "cache_write" /\ FileOf(j) = k
                \/ Loads(cache[k]).ok /\ WellFormed(Loads(cache[k]).v)
          /\ \A i \in Proc :
                /\ inv[i].pc = "fetched" => WellFormed(inv[i].payload)
                /\ inv[i].pc \in {"cache_open", "cache_write"} =>
                      WellFormed(inv[i].payload)
                /\ inv[i].exc \in ValidationMessages =>
                      inv[i].pc = "except" /\ inv[i].payload = JNull
          /\ \A p \in Responses :
                ~WellFormed(p) =>
                    /\ NormalizePayload(p, "USD", "frankfurter", now).exc # ""
                    /\ NormalizePayload(p, "USD", "frankfurter", now).rows = <<>>)
    /\ [][\A i \in Proc :
            (inv[i].pc = "http" /\ inv'[i].pc = "except") => cache' = cache]_vars

\* One fetch has failed validation while the cache holds a file written by
\* another fetch, and that file parses to a well-formed payload.
C10_Witness ==
    \E i \in Proc :
        /\ inv[i].pc = "except" /\ inv[i].use_cache
        /\ inv[i].exc = "Resposta da API invalida: rates deve ser objeto."
        /\ FileOf(i) \notin DOMAIN cache
        /\ \E k \in DOMAIN cache : Loads(cache[k]).ok /\ Loads(cache[k]).v = NaNPayload

\* C11: once the file of a fingerprint has been written in full, no step
\* changes its content or removes it, whoever fetches and with caching on or
\* off.
C11_CacheImmutable ==
    [][\A k \in written :
          /\ k \in DOMAIN cache'
          /\ cache'[k] = cache[k]]_vars

(***************************************************************************)
(* SpecStore: one caller drives the storage API directly                   *)
(***************************************************************************)
\* The rows the direct caller builds batches from, captured at second ts:
\* two rows for one triple that differ in rate and source, a row that
\* differs from them in the symbol only, one that differs in the date only,
\* and a row the NOT NULL constraint on rate rejects.
RowInputs(ts) ==
    { RateRow("2026-02-10", "USD", "BRL", 1, "frankfurter", ts),
      RateRow("2026-02-10", "USD", "BRL", 2, "manual", ts),
      RateRow("2026-02-10", "USD", "EUR", 1, "frankfurter", ts),
      RateRow("2026-02-09", "USD", "BRL", 2, "frankfurter", ts),
      RateRow("2026-02-10", "USD", "EUR", NULL, "frankfurter", ts) }

RECURSIVE SeqsUpTo(_, _)
SeqsUpTo(S, n) ==
    IF n = 0 THEN {<<>>}
    ELSE LET shorter == SeqsUpTo(S, n - 1)
         IN  shorter \cup {Append(q, x) : q \in shorter, x \in S}

Batches(ts) == SeqsUpTo(RowInputs(ts), MaxBatch)

\* The caller calls upsert_rates(db_path, rows): a new batch captured now, or
\* the very batch of its previous call once more. The record of the call
\* keeps the table as it was before it and the second it was made in.
CallUpsertRates ==
    \E rows \in Batches(now) \cup {last.rows} :
        LET r == UpsertRates(fx_rates, rows, now)
        IN  /\ fx_rates' = r.table
            /\ last' = [op |-> "upsert_rates", rows |-> rows, ret |-> r.ret,
                        raised |-> r.raised,
                        again |-> last.op = "upsert_rates" /\ rows = last.rows,
                        before |-> fx_rates, at |-> now]
            /\ UNCHANGED <<now, ingest_runs, cache, written, txn, inv>>

StoreNext ==
    \/ Tick
    \/ CallUpsertRates

SpecStore == Init /\ [][StoreNext]_vars

(***************************************************************************)
(* Claims on the storage engine                                            *)
(***************************************************************************)
LastIndexOf(rows, k) ==
    CHOOSE i \in 1 .. Len(rows) :
        /\ Key(rows[i]) = k
        /\ \A j \in (i + 1) .. Len(rows) : Key(rows[j]) # k

\* C1: the table never holds two rows with the same (date, base, symbol),
\* and after an upsert_rates call that returned, every triple of the batch is
\* stored with the rate, source and fetched_at of the batch's last row for
\* that triple.
C1_OneRowPerKey ==
    /\ \A r, s \in fx_rates : Key(r) = Key(s) => r = s
    /\ (last.op = "upsert_rates" /\ ~last.raised) =>
         \A i \in 1 .. Len(last.rows) :
            LET k == Key(last.rows[i])
                w == last.rows[LastIndexOf(last.rows, k)]
            IN  /\ Cardinality({s \in fx_rates : Key(s) = k}) = 1
                /\ \A s \in fx_rates :
                      Key(s) = k => /\ s.rate = w.rate
                                    /\ s.source = w.source
                                    /\ s.fetched_at = w.fetched_at

\* A batch that repeats a triple with another rate and source was applied to
\* a store that held the triple from an earlier second.
C1_Witness ==
    /\ last.op = "upsert_rates" /\ ~last.raised
    /\ Len(last.rows) = 2
    /\ Key(last.rows[1]) = Key(last.rows[2])
    /\ last.rows[1].rate # last.rows[2].rate
    /\ \E s \in fx_rates : Key(s) = Key(last.rows[1]) /\ s.created_at < now
    /\ Cardinality(fx_rates) >= 2

\* The stored rows without the column updated_at.
Core(table) ==
    {[date |-> s.date, base |-> s.base, symbol |-> s.symbol, rate |-> s.rate,
      source |-> s.source, fetched_at |-> s.fetched_at,
      created_at |-> s.created_at] : s \in table}

\* A step in which the caller passes the batch of its previous, successful
\* upsert_rates call again.
SecondCall ==
    /\ last.op = "upsert_rates" /\ ~last.raised
    /\ last'.op = "upsert_rates" /\ last'.again

\* C2 as stated: a second upsert_rates call with the same rows leaves the
\* stored state exactly as the first call left it, and both return len(rows).
C2_IdempotentExact ==
    [][SecondCall => /\ fx_rates' = fx_rates
                     /\ last.ret = Len(last.rows)
                     /\ last'.ret = Len(last.rows)]_vars

\* C2 amended: a second upsert_rates call with the same rows leaves every
\* column but updated_at of every stored row as the first call left it, adds
\* and removes no row, and both calls return len(rows).
C2_IdempotentCore ==
    [][SecondCall => /\ Core(fx_rates') = Core(fx_rates)
                     /\ Cardinality(fx_rates') = Cardinality(fx_rates)
                     /\ last.ret = Len(last.rows)
                     /\ last'.ret = Len(last.rows)]_vars

\* A non-empty batch was applied a second time, in a later second than some
\* row of it was created.
C2_Witness ==
    /\ last.op = "upsert_rates" /\ ~last.raised /\ last.again
    /\ last.rows # <<>>
    /\ \E s \in fx_rates :
          /\ Key(s) = Key(last.rows[1])
          /\ s.created_at < s.updated_at

\* The stored rows that the last upsert_rates call, which returned, met with
\* another rate: the row of the batch that decides the triple (its last one)
\* differs in rate from the row stored before the call.
Overwritten ==
    IF last.op = "upsert_rates" /\ ~last.raised
    THEN {s \in last.before :
            \E i \in 1 .. Len(last.rows) :
                /\ Key(last.rows[i]) = Key(s)
                /\ last.rows[LastIndexOf(last.rows, Key(s))].rate # s.rate}
    ELSE {}

\* The row stored now under the triple of s.
Stored(s) == CHOOSE t \in fx_rates : Key(t) = Key(s)

OverwrittenInSameSecond ==
    \E s \in Overwritten :
        /\ Stored(s).rate # s.rate
        /\ Stored(s).updated_at = s.updated_at

(***************************************************************************)
(* SpecUnit: a caller applies the pure functions of api.py                 *)
(***************************************************************************)
\* Parameter mappings in insertion order: the two orders of a base and a
\* symbols entry, and mappings of one entry.
ParamMappings ==
    LET bs == { <<"base", "USD">>, <<"base", "EUR">> }
        ss == { <<"symbols", "BRL">>, <<"symbols", "BRL,EUR">> }
    IN  {<<b, y>> : b \in bs, y \in ss} \cup {<<y, b>> : b \in bs, y \in ss}
        \cup {<<b>> : b \in bs} \cup {<<y>> : y \in ss}

\* The caller computes client._cache_key(endpoint, params).
CallCacheKey ==
    /\ \E m \in Methods, params \in ParamMappings :
          last' = [op |-> "_cache_key", endpoint |-> EndpointOf(m),
                   params |-> params, ret |-> CacheKey(EndpointOf(m), params)]
    /\ UNCHANGED <<now, fx_rates, ingest_runs, cache, written, txn, inv>>

\* The mappings a response may carry under rates.
RatesInputs ==
    { <<>>,
      << <<"BRL", JNum(1)>> >>,
      << <<"brl", JNum(1)>>, <<"EUR", JNum(2)>> >>,
      << <<"BRL", JNum(1)>>, <<"EUR", JStr("x")>> >>,
      << <<"2026-02-09", JObj(<< <<"BRL", JNum(2)>> >>)>>,
         <<"2026-02-10", JObj(<< <<"BRL", JNum(2)>>, <<"EUR", JNum(1)>> >>)>> >>,
      << <<"2026-02-09", JObj(<<>>)>> >>,
      << <<"2026-02-09", JObj(<< <<"BRL", JNum(2)>> >>)>>, <<"2026-02-10", JNum(2)>> >>,
      << <<"2026-02-09", JArr(<<>>)>> >>,
      << <<"2026-02-09", JObj(<< <<"BRL", JNull>> >>)>> >>,
      << <<"2026-02-09", JObj(<< <<"BRL", JStr("x")>> >>)>> >> }

\* Validated payloads: each mapping with and without a base field, and with
\* no date field, a date, an empty date and a null date.
PayloadInputs ==
    {JObj(b \o d \o << <<"rates", JObj(r)>> >>) :
        b \in {<<>>, << <<"base", JStr("USD")>> >>},
        d \in {<<>>, << <<"date", JStr("2026-02-10")>> >>,
               << <<"date", JStr("")>> >>, << <<"date", JNull>> >>},
        r \in RatesInputs}

\* The caller calls normalize_payload(payload, base=base), base = "" standing
\* for None; fetched_at is left to the clock.
CallNormalizePayload ==
    /\ \E payload \in PayloadInputs, base \in {"", "usd"} :
          LET r == NormalizePayload(payload, base, "frankfurter", now)
          IN  last' = [op |-> "normalize_payload", payload |-> payload,
                       base |-> base, exc |-> r.exc, ret |-> r.rows, at |-> now]
    /\ UNCHANGED <<now, fx_rates, ingest_runs, cache, written, txn, inv>>

UnitNext ==
    \/ Tick
    \/ CallCacheKey
    \/ CallNormalizePayload

SpecUnit == Init /\ [][UnitNext]_vars

(***************************************************************************)
(* Claims on the pure functions (SpecUnit)                                 *)
(***************************************************************************)
\* The mappings with the key-value pairs of params, in any insertion order.
Reorderings(params) ==
    {q \in ParamMappings :
        /\ Len(q) = Len(params)
        /\ {q[j] : j \in 1 .. Len(q)} = {params[j] : j \in 1 .. Len(params)}}

\* C12: the fingerprint _cache_key returned for a mapping is the fingerprint
\* of every mapping with the same key-value pairs in another insertion
\* order, for the same endpoint.
C12_CacheKeyDeterministic ==
    last.op = "_cache_key" =>
        \A q \in Reorderings(last.params) :
            CacheKey(last.endpoint, q) = last.ret

\* A fingerprint was computed for a mapping of two entries given with symbols
\* first, which has a reordering other than itself.
C12_Witness ==
    /\ last.op = "_cache_key"
    /\ Len(last.params) = 2 /\ last.params[1][1] = "symbols"
    /\ \E q \in Reorderings(last.params) : q # last.params

(***************************************************************************)
(* SpecDb: one caller drives upsert_rates and the run API of db.py         *)
(***************************************************************************)
\* What finish_ingest_run is called with: a status, rows_inserted and
\* error_message.
Outcomes ==
    { [status |-> "OK", rows_inserted |-> 2, error_message |-> NoText],
      [status |-> "FAIL", rows_inserted |-> 0, error_message |-> "boom"] }

\* The caller upserts the rows normalize_payload gives for a snapshot, or an
\* empty list.
CallUpsertNormalized ==
    \E rows \in {<<>>, NormalizePayload(SnapshotPayload, "USD", "frankfurter", now).rows} :
        LET r == UpsertRates(fx_rates, rows, now)
        IN  /\ fx_rates' = r.table
            /\ last' = [op |-> "upsert_rates", rows |-> rows, ret |-> r.ret,
                        raised |-> r.raised, again |-> FALSE,
                        before |-> fx_rates, at |-> now]
            /\ UNCHANGED <<now, ingest_runs, cache, written, txn, inv>>

\* The caller calls start_ingest_run(db_path, command, args).
CallStartIngestRun ==
    /\ Len(ingest_runs) < MaxRuns
    /\ \E c \in Commands :
          /\ ingest_runs' = StartRun(ingest_runs, c,
                                ArgsOf(c, "USD", <<"BRL", "EUR">>, TRUE), now)
          /\ last' = [op |-> "start_ingest_run", rows |-> <<>>,
                      ret |-> ingest_runs'[Len(ingest_runs')].id,
                      raised |-> FALSE, again |-> FALSE,
                      before |-> fx_rates, at |-> now]
    /\ UNCHANGED <<now, fx_rates, cache, written, txn, inv>>

\* The caller calls finish_ingest_run(db_path, run_id, status, n, msg) for a
\* run it has started.
CallFinishIngestRun ==
    /\ \E run_id \in 1 .. Len(ingest_runs), o \in Outcomes :
          /\ ingest_runs' = FinishRun(ingest_runs, run_id, o.status,
                                      o.rows_inserted, o.error_message, now)
          /\ last' = [op |-> "finish_ingest_run", rows |-> <<>>, ret |-> NULL,
                      raised |-> FALSE, again |-> FALSE,
                      before |-> fx_rates, at |-> now,
                      run_id |-> run_id, outcome |-> o]
    /\ UNCHANGED <<now, fx_rates, cache, written, txn, inv>>

DbNext ==
    \/ Tick
    \/ CallUpsertNormalized
    \/ CallStartIngestRun
    \/ CallFinishIngestRun

SpecDb == Init /\ [][DbNext]_vars

(***************************************************************************)
(* Claims on the storage API (SpecDb)                                      *)
(***************************************************************************)
\* C14: a call upsert_rates(db_path, []) returns 0, raises nothing, and
\* leaves fx_rates and ingest_runs as they were, whatever they hold.
C14_EmptyUpsert ==
    [][(last'.op = "upsert_rates" /\ last'.rows = <<>> /\ last' # last) =>
          /\ last'.ret = 0
          /\ ~last'.raised
          /\ fx_rates' = fx_rates
          /\ ingest_runs' = ingest_runs]_vars

\* upsert_rates was called with no rows on a store that holds rates and runs.
C14_Witness ==
    /\ last.op = "upsert_rates" /\ last.rows = <<>> /\ last.ret = 0
    /\ fx_rates # {} /\ fx_rates = last.before
    /\ ingest_runs # <<>>

\* C15: start_ingest_run appends one RUNNING row, returns its id and changes
\* nothing else; a finish_ingest_run(run_id, status, n, msg) that follows it
\* with the id it returned leaves that row with status, rows_inserted n and
\* error_message msg, adds and removes no row, and changes no other run and
\* no row of fx_rates.
C15_StartFinishPair ==
    [][/\ last'.op = "start_ingest_run" /\ last' # last =>
            /\ Len(ingest_runs') = Len(ingest_runs) + 1
            /\ SubSeq(ingest_runs', 1, Len(ingest_runs)) = ingest_runs
            /\ ingest_runs'[Len(ingest_runs')].id = last'.ret
            /\ ingest_runs'[Len(ingest_runs')].status = "RUNNING"
            /\ \A j \in 1 .. Len(ingest_runs) : ingest_runs[j].id # last'.ret
            /\ fx_rates' = fx_rates
       /\ (/\ last.op = "start_ingest_run"
           /\ last'.op = "finish_ingest_run"
           /\ last'.run_id = last.ret) =>
            /\ Len(ingest_runs') = Len(ingest_runs)
            /\ \A j \in 1 .. Len(ingest_runs) :
                  IF ingest_runs[j].id = last.ret
                  THEN /\ j = Len(ingest_runs)
                       /\ ingest_runs'[j].status = last'.outcome.status
                       /\ ingest_runs'[j].rows_inserted = last'.outcome.rows_inserted
                       /\ ingest_runs'[j].error_message = last'.outcome.error_message
                       /\ ingest_runs'[j].id = ingest_runs[j].id
                       /\ ingest_runs'[j].command = ingest_runs[j].command
                       /\ ingest_runs'[j].args = ingest_runs[j].args
                       /\ ingest_runs'[j].started_at = ingest_runs[j].started_at
                  ELSE ingest_runs'[j] = ingest_runs[j]
            /\ fx_rates' = fx_rates]_vars

\* A second run was started and at once finished FAIL with 0 rows and the
\* message "boom", on a store that holds rates and an earlier run that is OK.
C15_Witness ==
    /\ last.op = "finish_ingest_run" /\ last.run_id = 2
    /\ Len(ingest_runs) = 2
    /\ ingest_runs[2].status = "FAIL" /\ ingest_runs[2].rows_inserted = 0
    /\ ingest_runs[2].error_message = "boom"
    /\ ingest_runs[2].started_at = ingest_runs[2].finished_at
    /\ ingest_runs[1].status = "OK"
    /\ fx_rates # {}

(***************************************************************************)
(* Claims on normalize_payload (SpecUnit)                                  *)
(***************************************************************************)
\* The last call was normalize_payload on a validated payload for which a
\* base is known, from the argument or from the payload.
NormalizedWithBase ==
    /\ last.op = "normalize_payload"
    /\ WellFormed(last.payload)
    /\ last.base # "" \/ \E j \in 1 .. Len(last.payload.items) :
                            /\ last.payload.items[j][1] = "base"
                            /\ last.payload.items[j][2].t = "str"
                            /\ last.payload.items[j][2].s # ""

\* The field named key of the last call's payload, as a set of at most one
\* value.
FieldOf(key) ==
    {last.payload.items[j][2] :
        j \in {k \in 1 .. Len(last.payload.items) : last.payload.items[k][1] = key}}

\* The mapping under rates of the last call's payload.
RatesOf == (CHOOSE v \in FieldOf("rates") : TRUE).items

\* The base the rows of the last call must carry.
BaseOf ==
    IF last.base # "" THEN Upper(last.base)
    ELSE Upper((CHOOSE v \in FieldOf("base") : TRUE).s)

AllNumbers == \A j \in 1 .. Len(RatesOf) : RatesOf[j][2].t = "num"

\* One row per entry of a symbol -> number mapping, in its order, dated d.
RowsFor(entries, d) ==
    [j \in 1 .. Len(entries) |->
        RateRow(d, BaseOf, Upper(entries[j][1]), entries[j][2].n,
                "frankfurter", last.at)]

\* C16: when every value under rates is a number, whatever their count, the
\* call raises if the payload has no date field, and otherwise returns one
\* row per entry, in order, all with the payload's date.
C16_SnapshotShape ==
    (NormalizedWithBase /\ AllNumbers) =>
        IF FieldOf("date") = {}
        THEN last.exc # ""
        ELSE /\ last.exc = ""
             /\ last.ret = RowsFor(RatesOf, Str(CHOOSE v \in FieldOf("date") : TRUE))

\* C16 amended: when rates is not empty and every value under it is a
\* number, the call raises if the payload has no date field or an empty one,
\* and otherwise returns one row per entry, in order, all with str() of the
\* payload's date; when rates is empty the call returns no rows and does not
\* raise, date field or not.
C16_SnapshotShapeNonEmpty ==
    (NormalizedWithBase /\ AllNumbers) =>
        IF RatesOf = <<>>
        THEN last.exc = "" /\ last.ret = <<>>
        ELSE IF FieldOf("date") \subseteq {JStr("")}
        THEN last.exc = "Payload latest sem campo date." /\ last.ret = <<>>
        ELSE /\ last.exc = ""
             /\ Len(last.ret) = Len(RatesOf)
             /\ last.ret = RowsFor(RatesOf, Str(CHOOSE v \in FieldOf("date") : TRUE))

\* A snapshot of two entries, one with a lower-case code, was normalized
\* into two rows in the order of the entries.
C16_Witness ==
    /\ NormalizedWithBase /\ AllNumbers
    /\ Len(last.ret) = 2
    /\ last.ret[1].symbol = "BRL" /\ last.ret[2].symbol = "EUR"
    /\ last.ret[1].date = "2026-02-10" /\ last.ret[2].date = "2026-02-10"
    /\ last.ret[1].rate = 1 /\ last.ret[2].rate = 2

\* The rows of a date -> (symbol -> number) mapping: dates in order, the
\* entries of each date in order.
RECURSIVE SeriesRowsFor(_)
SeriesRowsFor(dates) ==
    IF dates = <<>> THEN <<>>
    ELSE RowsFor(dates[1][2].items, dates[1][1]) \o SeriesRowsFor(Tail(dates))

AllMappings == \A j \in 1 .. Len(RatesOf) : RatesOf[j][2].t = "obj"

\* Every rate of every date is a number.
AllRatesNumbers ==
    \A j \in 1 .. Len(RatesOf) :
        \A k \in 1 .. Len(RatesOf[j][2].items) : RatesOf[j][2].items[k][2].t = "num"

NoSymbol(i) == \A j \in 1 .. Len(inv[i].symbols) : inv[i].symbols[j] = " "

\* C18: a fetch called with no non-blank symbol raises in its first step,
\* the cache directory unchanged and no GET sent; such a call is never at the
\* cache check, at the GET or at the cache write, and never returns a
\* payload.
C18_EmptySymbolsRejected ==
    /\ [](\A i \in Proc :
            (inv[i].pc # "idle" /\ NoSymbol(i)) =>
                /\ inv[i].pc \in {"call_fetch", "except"}
                /\ ~inv[i].net
                /\ inv[i].payload = JNull
                /\ inv[i].pc = "except" => inv[i].exc = "Informe ao menos um symbol.")
    /\ [][\A i \in Proc :
            (inv[i].pc = "call_fetch" /\ NoSymbol(i) /\ inv'[i] # inv[i]) =>
                /\ inv'[i].pc = "except"
                /\ cache' = cache
                /\ written' = written]_vars

\* A fetch with a blank symbols list has raised while the cache holds the
\* file another fetch wrote.
C18_Witness ==
    \E i \in Proc :
        /\ inv[i].pc = "except" /\ NoSymbol(i) /\ inv[i].use_cache
        /\ inv[i].exc = "Informe ao menos um symbol."
        /\ cache # <<>>

(***************************************************************************)
(* Claims on the run table under concurrent invocations (Spec)             *)
(***************************************************************************)
\* The ids start_ingest_run has returned so far.
ReturnedIds == {inv[i].run_id : i \in Started}

\* C19: no two runs share an id; a step never removes a run or changes the
\* id of one; and the run a step adds, which is the one start_ingest_run
\* returns in that step, has an id greater than every id of the table and
\* than every id returned before.
C19_RunIdsIncrease ==
    /\ [](\A j, k \in 1 .. Len(ingest_runs) :
            ingest_runs[j].id = ingest_runs[k].id => j = k)
    /\ [][/\ Len(ingest_runs') >= Len(ingest_runs)
          /\ \A j \in 1 .. Len(ingest_runs) :
                ingest_runs'[j].id = ingest_runs[j].id
          /\ \A j \in (Len(ingest_runs) + 1) .. Len(ingest_runs') :
                /\ \A k \in 1 .. Len(ingest_runs) :
                      ingest_runs'[j].id > ingest_runs[k].id
                /\ \A r \in ReturnedIds : ingest_runs'[j].id > r
                /\ \E i \in Proc :
                      /\ inv[i].run_id = 0
                      /\ inv'[i].run_id = ingest_runs'[j].id]_vars

\* The second invocation started its run first and has finished it; then the
\* first invocation started its own.
C19_Witness ==
    /\ Len(ingest_runs) = 2
    /\ inv[2].run_id = 1 /\ inv[1].run_id = 2
    /\ ingest_runs[1].status \in {"OK", "FAIL"}
    /\ ingest_runs[2].status = "RUNNING"
    /\ ingest_runs[2].id = 2

\* The invocations whose upsert_rates has committed a batch.
Committed == {i \in Proc : inv[i].inserted > 0}

\* The orders in which the invocations of S can be lined up.
Orders(S) ==
    {q \in [1 .. Cardinality(S) -> S] :
        \A j, k \in 1 .. Cardinality(S) : q[j] = q[k] => j = k}

\* The table after the whole batches of the invocations in q, applied to the
\* empty table one after the other.
RECURSIVE ApplyBatches(_, _)
ApplyBatches(table, q) ==
    IF q = <<>> THEN table
    ELSE ApplyBatches(ExecuteMany(table, inv[q[1]].rows, now).table, Tail(q))

\* C20: whatever the interleaving, the committed table holds, in the columns
\* the batches supply, what applying the whole committed batches one after
\* the other in some order gives.
C20_UpsertsSerialize ==
    \E q \in Orders(Committed) :
        Data(fx_rates) = Data(ApplyBatches({}, q))

\* Both invocations have committed a batch of two rows for the same two
\* triples, fetched in different seconds; the stored rows are all of one
\* batch.
C20_Witness ==
    /\ inv[1].inserted = 2 /\ inv[2].inserted = 2
    /\ Key(inv[1].rows[1]) = Key(inv[2].rows[1])
    /\ Key(inv[1].rows[2]) = Key(inv[2].rows[2])
    /\ Key(inv[1].rows[1]) # Key(inv[1].rows[2])
    /\ inv[1].rows[1].fetched_at # inv[2].rows[1].fetched_at
    /\ \A s, t \in fx_rates : s.fetched_at = t.fetched_at

====
